---- MODULE Spec2Model ----
(***************************************************************************)
(* Client-side OAuth 2.0 / PKCE session manager of send-huny-dev.          *)
(*                                                                         *)
(* Spec          one browser tab: the App component (src/src/api/index.ts  *)
(*               281-694) and the fetch wrapper (src/services/             *)
(*               apiStorage.ts), sharing localStorage.                     *)
(* SpecCallback  one callback document: the three callback exchangers      *)
(*               (AuthService.handleCallback, the inline script of the     *)
(*               callback page, the server-side exchange).                 *)
(* SpecStartup   the App mounting over a stored session, then logins.      *)
(* SpecFiles     the file server: the /api/files routes over one bucket.   *)
(* SpecDownload  the file server: the public downloads and metadata        *)
(*               requests of an uploaded file.                             *)
(* SpecWrapper   the fetch wrapper of one tab, each call with the token    *)
(*               it was sent with.                                         *)
(*                                                                         *)
(* One step of the model is one run of JavaScript between two suspension   *)
(* points (an event handler, or the continuation of an await together with *)
(* the microtasks and the React render/effects it causes).                 *)
(***************************************************************************)
EXTENDS Integers, FiniteSets, Sequences, TLC

\* ------------------------------------------------------------------ values

NULL == "null"                       \* JavaScript null / undefined / absent key
Tokens == {"at1", "at2"}             \* access tokens the server may issue:
LoginTokens == {"at1"}               \*   to a code exchange
RefreshedTokens == {"at2"}           \*   to a refresh
RefreshTokens == {"rt1"}             \* refresh tokens the server may issue
Users == {"u1"}                      \* identities
ExpiresInChoices == {0, 3600}        \* expires_in of a response; 0: absent (falsy)
Statuses == {200, 401, 500}          \* answers of the file API

REFRESH_BUFFER_MS == 5 * 60 * 1000

\* bounds of the model
MaxTicks == 1          \* clock steps
MaxAppRefresh == 2     \* App.refreshAccessToken calls in flight
MaxApiOps == 2         \* apiStorage.refreshAccessToken calls in flight
MaxCalls == 2          \* fetchWithAuth calls in flight
MaxAttempts == 3       \* requests one fetchWithAuth call may issue
MaxTimers == 2         \* browser timers armed at once

TickMs == 11 * REFRESH_BUFFER_MS     \* the clock advances in steps of 55 minutes

VARIABLES
  ls,                 \* localStorage: auth_token, auth_user, auth_refresh_token, auth_expires_at
  auth,               \* App: useState<AuthState>
  currentView,        \* App: useState<AppView>
  refreshTimeoutRef,  \* App: useRef<number | null>; 0 is null
  timers,             \* the browser's armed timers: [id, due]
  appRefresh,         \* App.refreshAccessToken calls awaiting the token endpoint:
                      \* how many, by the refresh token they posted
  isRefreshing,       \* apiStorage.ts:16
  refreshPromise,     \* apiStorage.ts:17; 0 is null, else the slot of apiOps it stands for
  apiOps,             \* apiStorage.refreshAccessToken calls awaiting the token endpoint
  calls,              \* fetchWithAuth calls that have not returned: how many, by
                      \* where they stand
  logout,             \* handleLogout: "idle" | "revoking"
  logoutDue,          \* AdminDashboard.handleAuthError: setTimeout(() => onLogout(), 1500) pending
  ticks,              \* Date.now() = ticks * TickMs
  ev,                 \* observation: what the last step did
  ss,                 \* sessionStorage of the callback document: pkce_code_verifier, oauth_state
  cb,                 \* the callback run of that document
  login,              \* AuthService.initiateLoginPopup: calls in flight, the URL opened last
  srv                 \* the file server: the bucket, the requests in flight

tabVars == <<ls, auth, currentView, refreshTimeoutRef, timers, appRefresh,
             isRefreshing, refreshPromise, apiOps, calls, logout, logoutDue, ticks>>

vars == <<ls, auth, currentView, refreshTimeoutRef, timers, appRefresh,
          isRefreshing, refreshPromise, apiOps, calls, logout, logoutDue, ticks, ev,
          ss, cb, login, srv>>

cbVars == <<ss, cb, login>>

Now == ticks * TickMs

\* a stored auth_expires_at: absent, or the decimal string of a number of ms
ExpAbsent == [tag |-> "absent", ms |-> 0]
ExpNum(n) == [tag |-> "num", ms |-> n]

EmptyStorage ==
  [auth_token |-> NULL, auth_user |-> NULL,
   auth_refresh_token |-> NULL, auth_expires_at |-> ExpAbsent]

\* { isAuthenticated: false, isGuest: false } (token and user undefined)
Unauthenticated == [isAuthenticated |-> FALSE, token |-> NULL, user |-> NULL]

IdleSlot == [busy |-> FALSE, rt |-> NULL]

\* fetchWithAuth(url, options): retry defaults to true, the first request is out
NewCall ==
  [pc |-> "req", retry |-> TRUE, nreq |-> 1, nrefresh |-> 0, joined |-> 0, token |-> NULL]

Origins == {"own", "foreign"}        \* event.origin of a message: window.location.origin or not

NoTokens == [kind |-> "none", access_token |-> NULL, refresh_token |-> NULL, expires_in |-> 0]

NoEvent ==
  [op |-> "init", kind |-> "none", refreshFail |-> "none", result |-> "none", nreq |-> 0,
   origin |-> "none", resp |-> NoTokens, caller |-> "none"]

\* answers of the token endpoint to a refresh_token POST
TokenResponses ==
  [kind : {"ok"}, access_token : RefreshedTokens,
   refresh_token : RefreshTokens \cup {NULL}, expires_in : ExpiresInChoices]
  \cup {[kind |-> k, access_token |-> NULL, refresh_token |-> NULL, expires_in |-> 0]
          : k \in {"non2xx", "throw"}}

\* answers of the token endpoint to an authorization_code POST
ExchangeResponses ==
  [kind : {"ok"}, access_token : LoginTokens,
   refresh_token : RefreshTokens \cup {NULL}, expires_in : ExpiresInChoices]
  \cup {[kind |-> k, access_token |-> NULL, refresh_token |-> NULL, expires_in |-> 0]
          : k \in {"non2xx", "throw"}}

\* ------------------------------------------------- the App, as functions of
\* T = [ls, auth, currentView, refreshTimeoutRef, timers, appRefresh, fail, overflow]

Cur ==
  [ls |-> ls, auth |-> auth, currentView |-> currentView,
   refreshTimeoutRef |-> refreshTimeoutRef, timers |-> timers,
   appRefresh |-> appRefresh, fail |-> "none", overflow |-> FALSE]

RECURSIVE SumOver(_, _)
SumOver(f, S) ==
  IF S = {} THEN 0
  ELSE LET x == CHOOSE y \in S : TRUE IN f[x] + SumOver(f, S \ {x})

\* the number of calls in flight that a counts
InFlight(a) == SumOver(a, DOMAIN a)

\* one more, one less call standing at x
Put(a, x) ==
  [y \in DOMAIN a \cup {x} |->
     (IF y \in DOMAIN a THEN a[y] ELSE 0) + (IF y = x THEN 1 ELSE 0)]

Take(a, x) ==
  [y \in {z \in DOMAIN a : z # x \/ a[z] > 1} |-> IF y = x THEN a[y] - 1 ELSE a[y]]

\* every call standing at one of W moves on to f of where it stood
\* (f is a function on W), or returns
MoveAll(a, W, f) ==
  [y \in (DOMAIN a \ W) \cup {f[x] : x \in W} |->
     (IF y \in DOMAIN a \ W THEN a[y] ELSE 0)
       + SumOver(a, {x \in W : f[x] = y})]

DropAll(a, W) == [y \in DOMAIN a \ W |-> a[y]]

Least(S) == CHOOSE i \in S : \A j \in S : i <= j

\* a clearTimeout that cancels nothing
clearTimeout_nothing(T) == T

\* window.clearTimeout(refreshTimeoutRef.current)
clearTimeout(T) ==
  [T EXCEPT !.timers = {x \in T.timers : x.id # T.refreshTimeoutRef}]

\* refreshTimeoutRef.current = window.setTimeout(..., delay)
setTimeout(T, due) ==
  LET free == {i \in 1..MaxTimers : \A x \in T.timers : x.id # i} IN
  IF free = {} THEN [T EXCEPT !.overflow = TRUE]
  ELSE [T EXCEPT !.timers = @ \cup {[id |-> Least(free), due |-> due]},
                 !.refreshTimeoutRef = Least(free)]

\* App.refreshAccessToken up to its await: without a stored refresh token it
\* returns false and changes nothing, else the POST is in flight
refreshAccessToken_start(T) ==
  IF T.ls.auth_refresh_token = NULL THEN [T EXCEPT !.fail = "no_refresh_token"]
  ELSE IF InFlight(T.appRefresh) >= MaxAppRefresh THEN [T EXCEPT !.overflow = TRUE]
  ELSE [T EXCEPT !.appRefresh[T.ls.auth_refresh_token] = @ + 1]

\* a scheduleTokenRefresh that leaves no buffer
timeUntilRefresh_noBuffer(expiresAt, now) == expiresAt - now

\* scheduleTokenRefresh, lines 406-407
timeUntilRefresh(expiresAt, now) == (expiresAt - now) - REFRESH_BUFFER_MS

scheduleTokenRefresh(T, now) ==
  LET T1 == IF T.refreshTimeoutRef # 0
            THEN [clearTimeout(T) EXCEPT !.refreshTimeoutRef = 0]
            ELSE T
      exp == T1.ls.auth_expires_at
      delay == timeUntilRefresh(exp.ms, now)
  IN IF exp.tag = "absent" THEN T1
     ELSE IF delay <= 0
          THEN refreshAccessToken_start(T1)
          ELSE setTimeout(T1, now + delay)

\* the render after a handler: the effects that depend on auth.isAuthenticated
\* run when it changed (cleanup of the refresh effect, then its body; the
\* routing effect sets the view, no hash route being open)
render(T, was, now) ==
  IF T.auth.isAuthenticated = was THEN T
  ELSE LET T1 == IF T.refreshTimeoutRef # 0 THEN clearTimeout(T) ELSE T
           T2 == [T1 EXCEPT !.currentView =
                     IF T.auth.isAuthenticated THEN "ADMIN_DASHBOARD" ELSE "LOGIN"]
       IN IF T.auth.isAuthenticated THEN scheduleTokenRefresh(T2, now) ELSE T2

removeSession(T) == [T EXCEPT !.ls = EmptyStorage]

handleAuthFailed(T) ==
  [T EXCEPT !.auth = Unauthenticated, !.currentView = "LOGIN"]

\* a tokenRefreshed listener that sets the token and leaves the timer alone
handleTokenRefreshed_keepsTimer(T, token, now) == [T EXCEPT !.auth.token = token]

\* the tokenRefreshed listener: the token into auth, then scheduleTokenRefresh()
handleTokenRefreshed(T, token, now) ==
  scheduleTokenRefresh([T EXCEPT !.auth.token = token], now)

\* a clearAuthData that raises the authFailed event and keeps the four keys
clearAuthData_keepsKeys(T) == handleAuthFailed(T)

\* apiStorage.clearAuthData: the four keys, then the authFailed event
clearAuthData(T) == handleAuthFailed(removeSession(T))

\* a refresh that stores the new tokens and keeps the stored expiry
storeTokens_keepsExpiry(T, r, now) ==
  [T EXCEPT !.ls.auth_token = r.access_token,
            !.ls.auth_refresh_token =
               IF r.refresh_token # NULL THEN r.refresh_token ELSE @]

\* a refresh that stores the new tokens and removes the stored user
storeTokens_dropsUser(T, r, now) ==
  [T EXCEPT !.ls.auth_token = r.access_token,
            !.ls.auth_user = NULL,
            !.ls.auth_refresh_token =
               IF r.refresh_token # NULL THEN r.refresh_token ELSE @,
            !.ls.auth_expires_at =
               IF r.expires_in # 0 THEN ExpNum(now + r.expires_in * 1000) ELSE @]

\* localStorage writes of a successful refresh (both refresh functions)
storeTokens(T, r, now) ==
  [T EXCEPT !.ls.auth_token = r.access_token,
            !.ls.auth_refresh_token =
               IF r.refresh_token # NULL THEN r.refresh_token ELSE @,
            !.ls.auth_expires_at =
               IF r.expires_in # 0 THEN ExpNum(now + r.expires_in * 1000) ELSE @]

Commit(T) ==
  /\ ~T.overflow
  /\ ls' = T.ls
  /\ auth' = T.auth
  /\ currentView' = T.currentView
  /\ refreshTimeoutRef' = T.refreshTimeoutRef
  /\ timers' = T.timers
  /\ appRefresh' = T.appRefresh

\* ev: op, the handler that ran; kind, the answer a refresh call got; refreshFail,
\* why a refresh attempt of this step returned false; result and nreq, how the
\* fetchWithAuth calls that ended in this step ended and how many requests they
\* made; origin, the origin of the message handled; resp, the answer of the
\* token endpoint to the refresh that ended; caller, what the caller of
\* fetchWithAuth threw on the response it got back
Observe(op, kind, fail, result, nreq) ==
  ev' = [NoEvent EXCEPT !.op = op, !.kind = kind, !.refreshFail = fail,
                        !.result = result, !.nreq = nreq]

ObserveMessage(op, fail, origin) ==
  ev' = [NoEvent EXCEPT !.op = op, !.refreshFail = fail, !.origin = origin]

ObserveRefresh(op, r, fail, result, nreq) ==
  ev' = [NoEvent EXCEPT !.op = op, !.kind = r.kind, !.refreshFail = fail,
                        !.result = result, !.nreq = nreq, !.resp = r]


\* ------------------------------------------------------------ the App's steps

\* what handleMessage can receive as AUTH_SUCCESS
AuthSuccessData ==
  [token : LoginTokens, user : Users,
   refreshToken : RefreshTokens \cup {NULL}, expiresIn : ExpiresInChoices]

\* handleMessage, AUTH_SUCCESS branch, and the render it causes; event.origin
\* is not read
handleMessage_AUTH_SUCCESS(d, origin) ==
  LET T1 == [Cur EXCEPT
               !.ls.auth_token = d.token,
               !.ls.auth_user = d.user,
               !.ls.auth_refresh_token =
                  IF d.refreshToken # NULL THEN d.refreshToken ELSE @,
               !.ls.auth_expires_at =
                  IF d.expiresIn # 0 THEN ExpNum(Now + d.expiresIn * 1000) ELSE @,
               !.auth = [isAuthenticated |-> TRUE, token |-> d.token, user |-> d.user],
               !.currentView = "ADMIN_DASHBOARD"]
      T2 == render(T1, auth.isAuthenticated, Now)
  IN /\ Commit(T2)
     /\ ObserveMessage("AUTH_SUCCESS", T2.fail, origin)
     /\ UNCHANGED <<isRefreshing, refreshPromise, apiOps, calls, logout, logoutDue, ticks>>
     /\ UNCHANGED <<cbVars, srv>>

\* handleMessage, AUTH_ERROR branch: an alert
handleMessage_AUTH_ERROR(origin) ==
  /\ ObserveMessage("AUTH_ERROR", "none", origin)
  /\ UNCHANGED <<tabVars, srv>>
  /\ UNCHANGED <<cbVars, srv>>

\* the callback of the timer armed by scheduleTokenRefresh, up to its await
TimerFire(x) ==
  /\ x \in timers
  /\ Now >= x.due
  /\ LET T1 == refreshAccessToken_start([Cur EXCEPT !.timers = @ \ {x}])
     IN /\ Commit(T1)
        /\ Observe("timer", "none", T1.fail, "none", 0)
  /\ UNCHANGED <<isRefreshing, refreshPromise, apiOps, calls, logout, logoutDue, ticks>>
  /\ UNCHANGED <<cbVars, srv>>

\* a handleVisibilityChange that refreshes only when less than the buffer is left
withinBuffer_strictly(expiresAt, now) == expiresAt - now < REFRESH_BUFFER_MS

\* handleVisibilityChange, line 451
withinBuffer(expiresAt, now) == expiresAt - now <= REFRESH_BUFFER_MS

\* handleVisibilityChange with visibilityState = 'visible', up to its await
\* (for an unauthenticated tab or without a stored expiry it returns at once)
handleVisibilityChange ==
  /\ auth.isAuthenticated
  /\ ls.auth_expires_at.tag # "absent"
  /\ LET T1 == IF withinBuffer(ls.auth_expires_at.ms, Now)
               THEN refreshAccessToken_start(Cur)
               ELSE scheduleTokenRefresh(Cur, Now)
     IN /\ Commit(T1)
        /\ Observe("visibility", "none", T1.fail, "none", 0)
  /\ UNCHANGED <<isRefreshing, refreshPromise, apiOps, calls, logout, logoutDue, ticks>>
  /\ UNCHANGED <<cbVars, srv>>

\* App.refreshAccessToken after its await, and the caller's
\* "if (success) scheduleTokenRefresh()" (the same in the three callers)
refreshAccessToken_done(rt, r) ==
  /\ appRefresh[rt] > 0
  /\ LET T0 == [Cur EXCEPT !.appRefresh[rt] = @ - 1]
         T1 == CASE r.kind = "non2xx" ->
                      render([removeSession(T0) EXCEPT
                                !.auth = Unauthenticated, !.currentView = "LOGIN"],
                             auth.isAuthenticated, Now)
                 [] r.kind = "throw" -> T0
                 [] OTHER ->
                      scheduleTokenRefresh(
                        [storeTokens(T0, r, Now) EXCEPT !.auth.token = r.access_token], Now)
     IN /\ Commit(T1)
        /\ ObserveRefresh("app_refresh_done", r,
                          IF r.kind = "ok" THEN T1.fail ELSE r.kind, "none", 0)
  /\ UNCHANGED <<isRefreshing, refreshPromise, apiOps, calls, logout, logoutDue, ticks>>
  /\ UNCHANGED <<cbVars, srv>>

\* handleLogout up to "await authService.logout(auth.token)"; token is the
\* auth.token of the render whose closure runs
handleLogout_start(token) ==
  /\ logout = "idle"
  /\ IF token # NULL
     THEN /\ logout' = "revoking"
          /\ UNCHANGED <<ls, auth, currentView, refreshTimeoutRef, timers, appRefresh>>
          /\ Observe("logout_start", "none", "none", "none", 0)
     ELSE /\ logout' = "idle"
          /\ Commit(render([removeSession(Cur) EXCEPT
                              !.auth = Unauthenticated, !.currentView = "LOGIN"],
                           auth.isAuthenticated, Now))
          /\ Observe("logout_done", "none", "none", "none", 0)
  /\ UNCHANGED <<isRefreshing, refreshPromise, apiOps, calls, ticks>>
  /\ UNCHANGED <<cbVars, srv>>

\* the Logout button of the dashboard
LogoutClick ==
  /\ currentView = "ADMIN_DASHBOARD"
  /\ auth.isAuthenticated
  /\ handleLogout_start(auth.token)
  /\ UNCHANGED logoutDue

\* AdminDashboard.handleAuthError: onLogout() 1500 ms after an AuthError; the
\* closure is of a render of the dashboard, where auth.token was set
LogoutDeferred ==
  /\ logoutDue
  /\ logoutDue' = FALSE
  /\ \E token \in Tokens : handleLogout_start(token)

\* what the revoke request of AuthService.logout can do
RevokeAnswers == {"ok", "non2xx", "throw"}

\* an AuthService.logout that lets a failed fetch through
logout_rethrows(answer) == IF answer = "throw" THEN "rejected" ELSE "resolved"

\* AuthService.logout: the response is not read, a rejected fetch is caught
\* and logged
logout_settles(answer) == "resolved"

\* handleLogout after "await authService.logout(auth.token)": the removal of
\* the four keys, setAuth and setCurrentView follow when the promise resolved
handleLogout_done(answer) ==
  /\ logout = "revoking"
  /\ logout' = "idle"
  /\ Commit(IF logout_settles(answer) = "resolved"
            THEN render([removeSession(Cur) EXCEPT
                           !.auth = Unauthenticated, !.currentView = "LOGIN"],
                        auth.isAuthenticated, Now)
            ELSE Cur)
  /\ Observe(IF logout_settles(answer) = "resolved" THEN "logout_done" ELSE "logout_rejected",
             answer, "none", "none", 0)
  /\ UNCHANGED <<isRefreshing, refreshPromise, apiOps, calls, logoutDue, ticks>>
  /\ UNCHANGED <<cbVars, srv>>

Tick ==
  /\ ticks < MaxTicks
  /\ ticks' = ticks + 1
  /\ Observe("tick", "none", "none", "none", 0)
  /\ UNCHANGED <<ls, auth, currentView, refreshTimeoutRef, timers, appRefresh,
                 isRefreshing, refreshPromise, apiOps, calls, logout, logoutDue>>
  /\ UNCHANGED <<cbVars, srv>>


\* ----------------------------------------------------- the fetch wrapper

\* a coordinatedRefresh whose callers never get the promise in flight
coordinatedRefresh_neverJoins(flag, promise) == flag /\ promise = 0

\* coordinatedRefresh, line 80: the caller gets the promise in flight
coordinatedRefresh_joins(flag, promise) == flag /\ promise # 0

\* a finally that clears the promise and leaves the flag as it is
coordinatedRefresh_finallyKeepsFlag ==
  [isRefreshing |-> isRefreshing, refreshPromise |-> 0]

\* coordinatedRefresh, lines 86-89: the finally of the refresh that settled
coordinatedRefresh_finally == [isRefreshing |-> FALSE, refreshPromise |-> 0]

\* a fetchWithAuth that re-issues the request with retry = true
retryOfReissue_true == TRUE

\* fetchWithAuth, line 125: the retry argument of the re-issued request
retryOfReissue == FALSE

\* a handleResponseError that takes every failed response for an expired session
handleResponseError_always401(status) == "AuthError"

\* handleResponseError: what it throws on a response that is not ok; before
\* the AuthError it calls clearAuthData()
handleResponseError(status) == IF status = 401 THEN "AuthError" ELSE "Error"

\* listFiles / deleteFile / uploadFileToStorage on the response that
\* fetchWithAuth returned: "if (!response.ok) await handleResponseError(response)"
callerThrows(status) == IF status = 200 THEN "none" ELSE handleResponseError(status)

\* a component of the dashboard calls listFiles / deleteFile / uploadFileToStorage:
\* fetchWithAuth(url, options) up to its await fetch; bearer is what the record
\* of the call keeps of the Authorization header of this first request
fetchWithAuth_send(bearer) ==
  /\ currentView = "ADMIN_DASHBOARD"
  /\ auth.isAuthenticated
  /\ InFlight(calls) < MaxCalls
  /\ calls' = Put(calls, [NewCall EXCEPT !.token = bearer])
  /\ Observe("fetch_start", "none", "none", "none", 0)
  /\ UNCHANGED <<ls, auth, currentView, refreshTimeoutRef, timers, appRefresh,
                 isRefreshing, refreshPromise, apiOps, logout, logoutDue, ticks>>
  /\ UNCHANGED <<cbVars, srv>>

\* the call as Spec follows it: the client never reads the header again, the
\* record leaves it out
fetchWithAuth_start == fetchWithAuth_send(NULL)

\* the call as SpecWrapper follows it: the record keeps the auth_token that
\* line 110 read for the header
fetchWithAuth_start_bearer == fetchWithAuth_send(ls.auth_token)

\* fetchWithAuth after its await fetch, up to the end or to the await of
\* coordinatedRefresh(); a refresh without a stored refresh token settles
\* (false, then the finally) within the same run; a response that is returned
\* goes through the caller's handleResponseError within the same run
fetchWithAuth_response(c, status) ==
  /\ c \in DOMAIN calls
  /\ c.pc = "req"
  /\ IF status = 401 /\ c.retry
     THEN IF coordinatedRefresh_joins(isRefreshing, refreshPromise)
          THEN /\ calls' = Put(Take(calls, c),
                                 [c EXCEPT !.pc = "refresh",
                                           !.joined = refreshPromise,
                                           !.nrefresh = @ + 1])
               /\ Observe("fetch_401", "none", "none", "none", 0)
               /\ UNCHANGED <<ls, auth, currentView, refreshTimeoutRef, timers, appRefresh,
                              isRefreshing, refreshPromise, apiOps, logoutDue>>
          ELSE IF ls.auth_refresh_token = NULL
          THEN /\ isRefreshing' = coordinatedRefresh_finally.isRefreshing
               /\ refreshPromise' = coordinatedRefresh_finally.refreshPromise
               /\ calls' = Take(calls, c)
               /\ Commit(render(clearAuthData(Cur), auth.isAuthenticated, Now))
               /\ logoutDue' = TRUE
               /\ Observe("fetch_401", "none", "no_refresh_token", "AuthError", c.nreq)
               /\ UNCHANGED apiOps
          ELSE /\ \E s \in 1..MaxApiOps :
                    /\ ~apiOps[s].busy
                    /\ \A t \in 1..MaxApiOps : t < s => apiOps[t].busy
                    /\ apiOps' = [apiOps EXCEPT ![s] =
                          [busy |-> TRUE, rt |-> ls.auth_refresh_token]]
                    /\ refreshPromise' = s
                    /\ calls' = Put(Take(calls, c),
                                      [c EXCEPT !.pc = "refresh",
                                                !.joined = s,
                                                !.nrefresh = @ + 1])
               /\ isRefreshing' = TRUE
               /\ Observe("fetch_401", "none", "none", "none", 0)
               /\ UNCHANGED <<ls, auth, currentView, refreshTimeoutRef, timers, appRefresh,
                              logoutDue>>
     ELSE /\ calls' = Take(calls, c)
          /\ ev' = [NoEvent EXCEPT !.op = "fetch_done", !.result = ToString(status),
                                   !.nreq = c.nreq, !.caller = callerThrows(status)]
          /\ IF callerThrows(status) = "AuthError"
             THEN /\ Commit(render(clearAuthData(Cur), auth.isAuthenticated, Now))
                  /\ logoutDue' = TRUE
             ELSE UNCHANGED <<ls, auth, currentView, refreshTimeoutRef, timers,
                              appRefresh, logoutDue>>
          /\ UNCHANGED <<isRefreshing, refreshPromise, apiOps>>
  /\ UNCHANGED <<logout, ticks>>
  /\ UNCHANGED <<cbVars, srv>>

\* apiStorage.refreshAccessToken after its await fetch, the finally of
\* coordinatedRefresh, and the continuation of every fetchWithAuth awaiting it
Api_refreshAccessToken_done(s, r) ==
  LET waiters == {c \in DOMAIN calls : c.pc = "refresh" /\ c.joined = s}
      reissue == [c \in waiters |->
                    [c EXCEPT !.pc = "req", !.joined = 0,
                              !.retry = retryOfReissue, !.nreq = @ + 1]]
  IN
  /\ apiOps[s].busy
  /\ apiOps' = [apiOps EXCEPT ![s] = IdleSlot]
  /\ isRefreshing' = coordinatedRefresh_finally.isRefreshing
  /\ refreshPromise' = coordinatedRefresh_finally.refreshPromise
  /\ IF r.kind = "ok"
     THEN /\ \A c \in waiters : c.nreq < MaxAttempts
          /\ calls' = MoveAll(calls, waiters, reissue)
          /\ LET T1 == handleTokenRefreshed(storeTokens(Cur, r, Now), r.access_token, Now)
             IN /\ Commit(T1)
                /\ ObserveRefresh("api_refresh_done", r, T1.fail, "none", 0)
          /\ UNCHANGED logoutDue
     ELSE /\ calls' = DropAll(calls, waiters)
          /\ Commit(IF waiters = {} THEN Cur
                    ELSE render(clearAuthData(Cur), auth.isAuthenticated, Now))
          /\ logoutDue' = (logoutDue \/ waiters # {})
          /\ ObserveRefresh("api_refresh_done", r, r.kind,
                            IF waiters = {} THEN "none" ELSE "AuthError",
                            IF waiters = {} THEN 0 ELSE (CHOOSE c \in waiters : TRUE).nreq)
  /\ UNCHANGED <<logout, ticks>>
  /\ UNCHANGED <<cbVars, srv>>

\* --------------------------------------------------------- the callback
\* Three exchangers are in the source: "service", AuthService.handleCallback
\* (run by the App when its URL carries a code); "page", the inline script
\* of the page that GET /api/auth/callback returns; "server", the handler of
\* GET /api/auth/callback that exchanges the code itself.

Exchangers == {"service", "page", "server"}
Verifiers == {"v1", "v2"}            \* code verifiers generateCodeVerifier may draw
States == {"s1", "s2"}               \* states generateState may draw
Codes == {"c1"}                      \* authorization codes
HttpAnswers == {"ok", "non2xx", "throw"}

MaxLogins == 2         \* initiateLoginPopup calls in flight

NoPendingAuthAttempt == [pkce_code_verifier |-> NULL, oauth_state |-> NULL]

\* a generateCodeChallenge that hands back the verifier (the plain method)
generateCodeChallenge_plain(v) == <<"plain", v>>

\* base64url(SHA-256(verifier)): one challenge per verifier
generateCodeChallenge(v) == <<"S256", v>>

NoUrl == [state |-> NULL, code_challenge |-> <<>>, code_challenge_method |-> NULL]

\* pending: the verifiers of the calls awaiting generateCodeChallenge;
\* verifier, state, url: what the call that completed last generated and opened
NoLogin == [pending |-> {}, verifier |-> NULL, state |-> NULL, url |-> NoUrl]

NoMessage ==
  [type |-> "none", target |-> "none", token |-> NULL, user |-> NULL,
   refreshToken |-> NULL, expiresIn |-> 0]

NoCallback ==
  [impl |-> "none", pc |-> "idle", opener |-> FALSE, code |-> NULL, state |-> NULL,
   savedState |-> NULL, savedVerifier |-> NULL, tokenReqs |-> 0, userinfoReqs |-> 0,
   sentVerifier |-> NULL, tokens |-> NoTokens, user |-> NULL, outcome |-> "none",
   msg |-> NoMessage, closed |-> FALSE, report |-> "none",
   persisted |-> EmptyStorage, address |-> "none", view |-> "CALLBACK",
   isAuthenticated |-> FALSE]

\* the error kinds of the messages of the three exchangers
ErrorKind(message) ==
  CASE message = "Missing authorization code" -> "MissingCode"
    [] message = "Missing auth parameters" -> "MissingParameters"
    [] message = "Missing code verifier - please try logging in again" -> "MissingVerifier"
    [] message \in {"State mismatch security error",
                    "State mismatch - possible CSRF attack"} -> "StateMismatch"
    [] message = "Token exchange failed" -> "ExchangeFailed"
    [] message = "Failed to fetch user info" -> "UserInfoFailed"
    [] message = "success" -> "none"
    [] OTHER -> "Other"

\* a variant of initiateLoginPopup that keeps a pair that is stored
initiateLoginPopup_keepsStored(stored, v, st) ==
  IF stored = NoPendingAuthAttempt
  THEN [pkce_code_verifier |-> v, oauth_state |-> st]
  ELSE stored

\* initiateLoginPopup, lines 176-177: the two setItem
initiateLoginPopup_stores(stored, v, st) ==
  [pkce_code_verifier |-> v, oauth_state |-> st]

\* AuthService.initiateLoginPopup up to "await this.generateCodeChallenge":
\* removes the stored pair and draws the verifier
initiateLoginPopup_start(v) ==
  /\ cb.pc \in {"idle", "done"}
  /\ Cardinality(login.pending) < MaxLogins
  /\ v \notin login.pending
  /\ ss' = NoPendingAuthAttempt
  /\ login' = [login EXCEPT !.pending = @ \cup {v}]
  /\ cb' = cb
  /\ Observe("login_start", "none", "none", "none", 0)
  /\ UNCHANGED <<tabVars, srv>>

\* the rest of it: draws the state, stores the pair, opens the authorize URL
\* (the popup starts with a copy of this sessionStorage)
initiateLoginPopup_open(v, st) ==
  /\ cb.pc \in {"idle", "done"}
  /\ v \in login.pending
  /\ ss' = initiateLoginPopup_stores(ss, v, st)
  /\ login' = [pending |-> login.pending \ {v}, verifier |-> v, state |-> st,
               url |-> [state |-> st, code_challenge |-> generateCodeChallenge(v),
                        code_challenge_method |-> "S256"]]
  /\ cb' = cb
  /\ Observe("login_opened", "none", "none", "none", 0)
  /\ UNCHANGED <<tabVars, srv>>

\* the checks an exchanger makes before its token request: the message it
\* fails with, or "pass"
validate(impl, code, state, stored) ==
  CASE impl = "service" ->
         IF code = NULL \/ state = NULL \/ stored.pkce_code_verifier = NULL
         THEN "Missing auth parameters"
         ELSE IF state # stored.oauth_state THEN "State mismatch security error"
         ELSE "pass"
    [] impl = "page" ->
         IF code = NULL THEN "Missing authorization code"
         ELSE IF state # stored.oauth_state THEN "State mismatch - possible CSRF attack"
         ELSE IF stored.pkce_code_verifier = NULL
         THEN "Missing code verifier - please try logging in again"
         ELSE "pass"
    [] OTHER ->
         IF code = NULL THEN "Missing authorization code" ELSE "pass"

\* the code_verifier of the token request: the stored one; the server-side
\* exchange has none to send unless the URL carries one
verifierSent(impl, stored) ==
  IF impl = "server" THEN NULL ELSE stored.pkce_code_verifier

\* the targetOrigin of the postMessage to the opener
postTarget(impl, message) ==
  CASE impl = "service" -> "*"
    [] impl = "page" ->
         IF message = "Missing authorization code" THEN "*" ELSE "origin"
    [] OTHER -> IF message = "success" THEN "origin" ELSE "*"

\* the AUTH_SUCCESS message of an exchanger
authData(impl, tokens, user) ==
  [type |-> "AUTH_SUCCESS", target |-> postTarget(impl, "success"),
   token |-> tokens.access_token, user |-> user,
   refreshToken |-> IF impl = "page" THEN tokens.refresh_token ELSE NULL,
   expiresIn |-> IF impl = "page" THEN tokens.expires_in ELSE 0]

\* String(x) of a value that may be undefined
StringOf(x) == IF x = NULL THEN "undefined" ELSE x

\* the localStorage writes of the page without opener (lines 395-398)
persistSession(tokens, user, now) ==
  [auth_token |-> tokens.access_token,
   auth_refresh_token |-> StringOf(tokens.refresh_token),
   auth_expires_at |-> IF tokens.expires_in = 0 THEN [tag |-> "NaN", ms |-> 0]
                       ELSE ExpNum(now + tokens.expires_in * 1000),
   auth_user |-> user]

\* the end of a run with a window.opener: the message, then window.close()
toOpener(run, message) ==
  [run EXCEPT
     !.pc = "done", !.outcome = message, !.closed = TRUE,
     !.msg = IF message = "success" THEN authData(run.impl, run.tokens, run.user)
             ELSE [NoMessage EXCEPT !.type = "AUTH_ERROR",
                                    !.target = postTarget(run.impl, message)]]

\* the end of a run without opener
inPage(run, message, now) ==
  LET end == [run EXCEPT !.pc = "done", !.outcome = message] IN
  CASE message = "success" /\ run.impl = "service" ->
         [end EXCEPT !.isAuthenticated = TRUE, !.view = "ADMIN_DASHBOARD",
                     !.address = "pathname"]
    [] message = "success" /\ run.impl = "page" ->
         [end EXCEPT !.persisted = persistSession(run.tokens, run.user, now),
                     !.address = "/"]
    [] message = "success" ->
         [end EXCEPT !.address = "/#auth="]
    [] run.impl = "service" ->
         [end EXCEPT !.report = "alert", !.view = "LOGIN"]
    [] OTHER ->
         [end EXCEPT !.report = "/?error=", !.address = "/?error="]

finish(run, message, now) ==
  IF run.opener THEN toOpener(run, message) ELSE inPage(run, message, now)

\* a document is loaded with the callback's query string: the exchanger runs
\* up to its first await, or to its failure (the App runs the service only
\* when the URL carries a code)
handleCallback_start(impl, opener, code, state) ==
  /\ cb.pc \in {"idle", "done"}
  /\ impl = "service" => code # NULL
  /\ LET verdict == validate(impl, code, state, ss)
         run == [NoCallback EXCEPT !.impl = impl, !.opener = opener,
                                   !.code = code, !.state = state,
                                   !.address = "callback",
                                   !.savedState = ss.oauth_state,
                                   !.savedVerifier = ss.pkce_code_verifier]
     IN cb' = IF verdict = "pass"
              THEN [run EXCEPT !.pc = "token", !.tokenReqs = 1,
                               !.sentVerifier = verifierSent(impl, ss)]
              ELSE finish(run, verdict, Now)
  /\ ss' = ss
  /\ Observe("callback", "none", "none", "none", 0)
  /\ UNCHANGED <<tabVars, login, srv>>

\* a variant that goes on to userinfo whatever the token endpoint answered
afterToken_goesOn(kind) == "userinfo"

\* where the run stands after the answer of the token endpoint
afterToken(kind) == IF kind = "ok" THEN "userinfo" ELSE "done"

\* the answer to POST /oauth/token
handleCallback_token(r) ==
  /\ cb.pc = "token"
  /\ cb' = IF afterToken(r.kind) = "userinfo"
           THEN [cb EXCEPT !.pc = "userinfo", !.userinfoReqs = @ + 1, !.tokens = r]
           ELSE finish(cb, IF r.kind = "non2xx" THEN "Token exchange failed"
                           ELSE "Authentication failed", Now)
  /\ ss' = ss
  /\ Observe("callback", r.kind, "none", "none", 0)
  /\ UNCHANGED <<tabVars, login, srv>>

\* the PKCE clean-up after userinfo answered 2xx: the service and the page
\* remove both keys, the server-side exchange has no access to them
cleanUp(impl, stored) ==
  IF impl = "server" THEN stored ELSE NoPendingAuthAttempt

\* the answer to GET /oauth/userinfo
handleCallback_userinfo(r, user) ==
  /\ cb.pc = "userinfo"
  /\ cb' = CASE r = "ok" -> finish([cb EXCEPT !.user = user], "success", Now)
              [] r = "non2xx" -> finish(cb, "Failed to fetch user info", Now)
              [] OTHER -> finish(cb, "Authentication failed", Now)
  /\ ss' = IF r = "ok" THEN cleanUp(cb.impl, ss) ELSE ss
  /\ Observe("callback", r, "none", "none", 0)
  /\ UNCHANGED <<tabVars, login, srv>>

\* ------------------------------------------------------------------ the tab
\* ------------------------------------------------------------ the file server
\* The bucket holds users/{userId}/files/{fileId}/meta (with its data object)
\* and public/{publicId}. One step is one run of a request handler between two
\* awaits; the storage calls of one /api/files route are taken as one step.

Subs == {"u1", "u2"}                 \* user.sub of the userinfo answers
Uploads == {1, 2}                    \* the uploads: each draws a file id and a public id
MaxDownloadsChoices == {1, 2}        \* config.maxDownloads
Routes == {"list", "upload", "metadata", "delete", "download"}

MaxDownloadReqs == 2   \* downloadPublicFile requests in flight
MaxRouteReqs == 1      \* /api/files requests awaiting the userinfo endpoint
MaxMetadataReqs == 1   \* getPublicFileMetadata requests in flight

NoMeta ==
  [userId |-> NULL, maxDownloads |-> 0, currentDownloads |-> 0,
   isExpired |-> FALSE, publicId |-> 0]

NoRef == [userId |-> NULL, fileId |-> 0]

Objects == Subs \X Uploads           \* <<userId, fileId>> of a meta object

NoAnswer ==
  [op |-> "none", status |-> 0, bearer |-> FALSE, answer |-> "none",
   user |-> NULL, touched |-> {}]

\* meta, pub: the bucket; downloads, routes: the requests in flight, how many
\* by where they stand; drawn: the ids drawn by uploads;
\* served, limit: per meta object, the answers that carried the content and the
\* maxDownloads it was uploaded with; last: the answer a /api/files request got
\* in the last step
NoServer ==
  [meta |-> [o \in Objects |-> NoMeta],
   pub |-> [i \in Uploads |-> NoRef],
   downloads |-> [d \in {} |-> 0],
   routes |-> [q \in {} |-> 0],
   drawn |-> {},
   served |-> [o \in Objects |-> 0],
   limit |-> [o \in Objects |-> 0],
   last |-> NoAnswer]

\* the keys a request touched
UserKey(u, f) == [space |-> "users", userId |-> u, id |-> f]
PublicKey(i, owner) == [space |-> "public", userId |-> owner, id |-> i]

\* a getUserFromRequest that takes a failed validation for a valid token
getUserFromRequest_trusting(bearer, answer, sub) ==
  IF bearer /\ answer # "non2xx" THEN sub ELSE NULL

\* getUserFromRequest: null without a Bearer header, for a non-2xx answer of
\* the userinfo endpoint and for a failed fetch
getUserFromRequest(bearer, answer, sub) ==
  IF bearer /\ answer = "ok" THEN sub ELSE NULL

Answer(op, status, bearer, answer, user, touched) ==
  [op |-> op, status |-> status, bearer |-> bearer, answer |-> answer,
   user |-> user, touched |-> touched]

\* the handler of one route for the authenticated userId: the bucket after
\* it, the status, the keys touched
listFiles(S, userId) ==
  [S EXCEPT !.last = Answer("route", 200, TRUE, "ok", userId,
       {UserKey(userId, 0)}
         \cup {UserKey(userId, f) : f \in {g \in Uploads : S.meta[<<userId, g>>] # NoMeta}})]

uploadFile(S, userId, i, maxDownloads) ==
  [S EXCEPT !.meta[<<userId, i>>] =
               [userId |-> userId, maxDownloads |-> maxDownloads,
                currentDownloads |-> 0, isExpired |-> FALSE, publicId |-> i],
            !.pub[i] = [userId |-> userId, fileId |-> i],
            !.drawn = @ \cup {i},
            !.limit[<<userId, i>>] = maxDownloads,
            !.last = Answer("route", 200, TRUE, "ok", userId,
                            {UserKey(userId, i), UserKey(userId, 0), PublicKey(i, userId)})]

getFileMetadata(S, userId, fileId) ==
  [S EXCEPT !.last = Answer("route",
                            IF S.meta[<<userId, fileId>>] = NoMeta THEN 404 ELSE 200,
                            TRUE, "ok", userId, {UserKey(userId, fileId)})]

deleteFile(S, userId, fileId) ==
  LET metadata == S.meta[<<userId, fileId>>] IN
  IF metadata = NoMeta
  THEN [S EXCEPT !.last = Answer("route", 404, TRUE, "ok", userId,
                                 {UserKey(userId, fileId)})]
  ELSE [S EXCEPT !.meta[<<userId, fileId>>] = NoMeta,
                 !.pub[metadata.publicId] = NoRef,
                 !.last = Answer("route", 200, TRUE, "ok", userId,
                                 {UserKey(userId, fileId), UserKey(userId, 0),
                                  PublicKey(metadata.publicId,
                                            S.pub[metadata.publicId].userId)})]

\* handleFileRoutes up to "await fetch" of getUserFromRequest; without a Bearer
\* header it answers at once (fileId: the :id of the path, 0 for /api/files)
handleFileRoutes_start(bearer, route, fileId) ==
  /\ (fileId = 0) = (route \in {"list", "upload"})
  /\ IF ~bearer
     THEN srv' = [srv EXCEPT !.last = Answer("route", 401, FALSE, "none", NULL, {})]
     ELSE /\ InFlight(srv.routes) < MaxRouteReqs
          /\ srv' = [srv EXCEPT
                       !.routes = Put(@, [route |-> route, fileId |-> fileId]),
                       !.last = NoAnswer]
  /\ UNCHANGED <<tabVars, ev, cbVars>>

\* the userinfo endpoint answered: 401, or the route for user.sub
handleFileRoutes_userinfo(q, answer, sub, i, maxDownloads) ==
  /\ q \in DOMAIN srv.routes
  /\ LET S == [srv EXCEPT !.routes = Take(@, q)]
         user == getUserFromRequest(TRUE, answer, sub)
         done == CASE q.route = "list" -> listFiles(S, user)
                   [] q.route = "upload" -> uploadFile(S, user, i, maxDownloads)
                   [] q.route = "delete" -> deleteFile(S, user, q.fileId)
                   [] OTHER -> getFileMetadata(S, user, q.fileId)
     IN IF user = NULL
        THEN srv' = [S EXCEPT !.last = Answer("route", 401, TRUE, answer, NULL, {})]
        ELSE /\ q.route = "upload" => i \notin srv.drawn
             /\ srv' = [done EXCEPT !.last.answer = answer]
  /\ UNCHANGED <<tabVars, ev, cbVars>>

\* the public requests of one handler that are in flight
RequestsOf(handler) ==
  SumOver(srv.downloads, {d \in DOMAIN srv.downloads : d.handler = handler})

\* downloadPublicFile up to "await storage.getPublicReference"
downloadPublicFile_start(publicId) ==
  /\ RequestsOf("downloadPublicFile") < MaxDownloadReqs
  /\ srv' = [srv EXCEPT
               !.downloads = Put(@, [handler |-> "downloadPublicFile", pc |-> "ref",
                                     publicId |-> publicId,
                                     ref |-> NoRef, metadata |-> NoMeta]),
               !.last = NoAnswer]
  /\ UNCHANGED <<tabVars, ev, cbVars>>

\* ... up to "await storage.getFileMetadata"
downloadPublicFile_ref(d) ==
  /\ d \in DOMAIN srv.downloads
  /\ d.handler = "downloadPublicFile"
  /\ d.pc = "ref"
  /\ LET ref == srv.pub[d.publicId] IN
     srv' = IF ref = NoRef
            THEN [srv EXCEPT !.downloads = Take(@, d),
                             !.last = NoAnswer]
            ELSE [srv EXCEPT !.downloads = Put(Take(@, d),
                                               [d EXCEPT !.pc = "meta", !.ref = ref]),
                             !.last = NoAnswer]
  /\ UNCHANGED <<tabVars, ev, cbVars>>

\* line 140
downloadsExpired(metadata) == metadata.currentDownloads >= metadata.maxDownloads

\* ... the expiry check, up to "await storage.getFileData"
downloadPublicFile_meta(d, timeExpired) ==
  /\ d \in DOMAIN srv.downloads
  /\ d.handler = "downloadPublicFile"
  /\ d.pc = "meta"
  /\ LET metadata == srv.meta[<<d.ref.userId, d.ref.fileId>>] IN
     srv' = IF metadata = NoMeta
            THEN [srv EXCEPT !.downloads = Take(@, d),
                             !.last = NoAnswer]
            ELSE IF metadata.isExpired \/ timeExpired \/ downloadsExpired(metadata)
            THEN [srv EXCEPT !.downloads = Take(@, d),
                             !.last = NoAnswer]
            ELSE [srv EXCEPT !.downloads = Put(Take(@, d),
                                               [d EXCEPT !.pc = "data",
                                                         !.metadata = metadata]),
                             !.last = NoAnswer]
  /\ UNCHANGED <<tabVars, ev, cbVars>>

\* ... getFileData, the increment, up to "await storage.updateFileMetadata"
\* (the put is issued with the metadata read before the check)
downloadPublicFile_data(d) ==
  /\ d \in DOMAIN srv.downloads
  /\ d.handler = "downloadPublicFile"
  /\ d.pc = "data"
  /\ srv' = IF srv.meta[<<d.ref.userId, d.ref.fileId>>] = NoMeta
            THEN [srv EXCEPT !.downloads = Take(@, d),
                             !.last = NoAnswer]
            ELSE LET n == d.metadata.currentDownloads + 1 IN
                 [srv EXCEPT
                    !.downloads = Put(Take(@, d),
                       [d EXCEPT !.pc = "put",
                                 !.metadata.currentDownloads = n,
                                 !.metadata.isExpired =
                                    (@ \/ n >= d.metadata.maxDownloads)]),
                    !.last = NoAnswer]
  /\ UNCHANGED <<tabVars, ev, cbVars>>

\* ... the put has landed: the response carries the content
downloadPublicFile_put(d) ==
  /\ d \in DOMAIN srv.downloads
  /\ d.handler = "downloadPublicFile"
  /\ d.pc = "put"
  /\ srv' = [srv EXCEPT
               !.downloads = Take(@, d),
               !.meta[<<d.ref.userId, d.ref.fileId>>] = d.metadata,
               !.served[<<d.ref.userId, d.ref.fileId>>] = @ + 1,
               !.last = NoAnswer]
  /\ UNCHANGED <<tabVars, ev, cbVars>>

\* GET of the public metadata: getPublicFileMetadata up to
\* "await storage.getPublicReference"
getPublicFileMetadata_start(publicId) ==
  /\ RequestsOf("getPublicFileMetadata") < MaxMetadataReqs
  /\ srv' = [srv EXCEPT
               !.downloads = Put(@, [handler |-> "getPublicFileMetadata", pc |-> "ref",
                                     publicId |-> publicId,
                                     ref |-> NoRef, metadata |-> NoMeta]),
               !.last = NoAnswer]
  /\ UNCHANGED <<tabVars, ev, cbVars>>

\* ... up to "await storage.getFileMetadata" (404 without a reference)
getPublicFileMetadata_ref(d) ==
  /\ d \in DOMAIN srv.downloads
  /\ d.handler = "getPublicFileMetadata"
  /\ d.pc = "ref"
  /\ LET ref == srv.pub[d.publicId] IN
     srv' = IF ref = NoRef
            THEN [srv EXCEPT !.downloads = Take(@, d),
                             !.last = NoAnswer]
            ELSE [srv EXCEPT !.downloads = Put(Take(@, d),
                                               [d EXCEPT !.pc = "meta", !.ref = ref]),
                             !.last = NoAnswer]
  /\ UNCHANGED <<tabVars, ev, cbVars>>

\* ... the expiry check: 404, the public metadata, 410 at once when the flag
\* is stored, or the flag set in the metadata just read up to
\* "await storage.updateFileMetadata"
getPublicFileMetadata_meta(d, timeExpired) ==
  /\ d \in DOMAIN srv.downloads
  /\ d.handler = "getPublicFileMetadata"
  /\ d.pc = "meta"
  /\ LET metadata == srv.meta[<<d.ref.userId, d.ref.fileId>>]
         isExpired == metadata.isExpired \/ timeExpired \/ downloadsExpired(metadata)
     IN
     srv' = IF metadata # NoMeta /\ isExpired /\ ~metadata.isExpired
            THEN [srv EXCEPT !.downloads = Put(Take(@, d),
                                               [d EXCEPT !.pc = "put",
                                                         !.metadata =
                                                            [metadata EXCEPT !.isExpired = TRUE]]),
                             !.last = NoAnswer]
            ELSE [srv EXCEPT !.downloads = Take(@, d),
                             !.last = NoAnswer]
  /\ UNCHANGED <<tabVars, ev, cbVars>>

\* ... the put has landed: 410
getPublicFileMetadata_put(d) ==
  /\ d \in DOMAIN srv.downloads
  /\ d.handler = "getPublicFileMetadata"
  /\ d.pc = "put"
  /\ srv' = [srv EXCEPT
               !.downloads = Take(@, d),
               !.meta[<<d.ref.userId, d.ref.fileId>>] = d.metadata,
               !.last = NoAnswer]
  /\ UNCHANGED <<tabVars, ev, cbVars>>

Init ==
  /\ ls = EmptyStorage
  /\ auth = Unauthenticated
  /\ currentView = "LOGIN"
  /\ refreshTimeoutRef = 0
  /\ timers = {}
  /\ appRefresh = [rt \in RefreshTokens |-> 0]
  /\ isRefreshing = FALSE
  /\ refreshPromise = 0
  /\ apiOps = [i \in 1..MaxApiOps |-> IdleSlot]
  /\ calls = [c \in {} |-> 0]
  /\ logout = "idle"
  /\ logoutDue = FALSE
  /\ ticks = 0
  /\ ev = NoEvent
  /\ ss = NoPendingAuthAttempt
  /\ cb = NoCallback
  /\ login = NoLogin
  /\ srv = NoServer

Next ==
  \/ \E d \in AuthSuccessData, origin \in Origins : handleMessage_AUTH_SUCCESS(d, origin)
  \/ \E origin \in Origins : handleMessage_AUTH_ERROR(origin)
  \/ \E x \in timers : TimerFire(x)
  \/ handleVisibilityChange
  \/ \E rt \in RefreshTokens, r \in TokenResponses : refreshAccessToken_done(rt, r)
  \/ LogoutClick
  \/ LogoutDeferred
  \/ \E answer \in RevokeAnswers : handleLogout_done(answer)
  \/ fetchWithAuth_start
  \/ \E c \in DOMAIN calls, status \in Statuses : fetchWithAuth_response(c, status)
  \/ \E s \in 1..MaxApiOps, r \in TokenResponses : Api_refreshAccessToken_done(s, r)
  \/ Tick

Spec == Init /\ [][Next]_vars

NextCallback ==
  \/ \E v \in Verifiers : initiateLoginPopup_start(v)
  \/ \E v \in Verifiers, st \in States : initiateLoginPopup_open(v, st)
  \/ \E impl \in Exchangers, opener \in BOOLEAN,
        code \in Codes \cup {NULL}, st \in States \cup {NULL} :
        handleCallback_start(impl, opener, code, st)
  \/ \E r \in ExchangeResponses : handleCallback_token(r)
  \/ \E r \in HttpAnswers, user \in Users : handleCallback_userinfo(r, user)

SpecCallback == Init /\ [][NextCallback]_vars

\* --------------------------------------------------------------- startup
\* The App mounts over whatever an earlier document left in localStorage.

NotMounted == "NOT_MOUNTED"          \* no App component has rendered yet

\* a stored auth_user that is not JSON: handleMessage stores
\* JSON.stringify(event.data.user), "undefined" for a message without user
Unparsable == "undefined"

\* what localStorage can hold when the App mounts
StoredSessions ==
  [auth_token : LoginTokens \cup {NULL},
   auth_user : Users \cup {NULL, Unparsable},
   auth_refresh_token : RefreshTokens \cup {NULL},
   auth_expires_at : {ExpAbsent, ExpNum(0), ExpNum(3600 * 1000)}]

\* JSON.parse of a stored auth_user (the text of a user stands for the user)
JSON_parse(text) == IF text \in Users THEN text ELSE "SyntaxError"

\* the lazy initializers of currentView and auth, then the first effects: the
\* refresh effect (scheduleTokenRefresh when authenticated) and the routing
\* effect (no hash, no code in the address)
AppMount ==
  /\ currentView = NotMounted
  /\ LET token == ls.auth_token
         userStr == ls.auth_user
         both == token # NULL /\ userStr # NULL
         threw == both /\ JSON_parse(userStr) = "SyntaxError"
         T0 == [Cur EXCEPT
                  !.ls = IF threw
                         THEN [@ EXCEPT !.auth_token = NULL, !.auth_user = NULL]
                         ELSE @,
                  !.auth = IF both /\ ~threw
                           THEN [isAuthenticated |-> TRUE, token |-> token,
                                 user |-> JSON_parse(userStr)]
                           ELSE Unauthenticated,
                  !.currentView = IF both /\ ~threw THEN "ADMIN_DASHBOARD" ELSE "LOGIN"]
         T1 == IF T0.auth.isAuthenticated THEN scheduleTokenRefresh(T0, Now) ELSE T0
     IN /\ Commit(T1)
        /\ Observe("mount", IF threw THEN "throw" ELSE "none", T1.fail, "none", 0)
  /\ UNCHANGED <<isRefreshing, refreshPromise, apiOps, calls, logout, logoutDue, ticks>>
  /\ UNCHANGED <<cbVars, srv>>

InitStartup ==
  /\ ls \in StoredSessions
  /\ auth = Unauthenticated
  /\ currentView = NotMounted
  /\ refreshTimeoutRef = 0
  /\ timers = {}
  /\ appRefresh = [rt \in RefreshTokens |-> 0]
  /\ isRefreshing = FALSE
  /\ refreshPromise = 0
  /\ apiOps = [i \in 1..MaxApiOps |-> IdleSlot]
  /\ calls = [c \in {} |-> 0]
  /\ logout = "idle"
  /\ logoutDue = FALSE
  /\ ticks = 0
  /\ ev = NoEvent
  /\ ss = NoPendingAuthAttempt
  /\ cb = NoCallback
  /\ login = NoLogin
  /\ srv = NoServer

\* a tab that mounts and then keeps its session fresh
NextStartup ==
  \/ AppMount
  \/ /\ currentView # NotMounted
     /\ \E d \in AuthSuccessData, origin \in Origins :
          handleMessage_AUTH_SUCCESS(d, origin)
  \/ \E x \in timers : TimerFire(x)
  \/ handleVisibilityChange
  \/ \E rt \in RefreshTokens, r \in TokenResponses : refreshAccessToken_done(rt, r)
  \/ Tick

SpecStartup == InitStartup /\ [][NextStartup]_vars

\* the /api/files routes over a bucket that starts empty
NextFiles ==
  \/ \E bearer \in BOOLEAN, route \in Routes, fileId \in Uploads \cup {0} :
       handleFileRoutes_start(bearer, route, fileId)
  \/ \E q \in DOMAIN srv.routes, answer \in HttpAnswers, sub \in Subs,
        i \in Uploads, maxDownloads \in MaxDownloadsChoices :
       handleFileRoutes_userinfo(q, answer, sub, i, maxDownloads)

SpecFiles == Init /\ [][NextFiles]_vars

\* the public requests over a bucket that holds one uploaded file
InitDownload ==
  /\ ls = EmptyStorage
  /\ auth = Unauthenticated
  /\ currentView = "LOGIN"
  /\ refreshTimeoutRef = 0
  /\ timers = {}
  /\ appRefresh = [rt \in RefreshTokens |-> 0]
  /\ isRefreshing = FALSE
  /\ refreshPromise = 0
  /\ apiOps = [i \in 1..MaxApiOps |-> IdleSlot]
  /\ calls = [c \in {} |-> 0]
  /\ logout = "idle"
  /\ logoutDue = FALSE
  /\ ticks = 0
  /\ ev = NoEvent
  /\ ss = NoPendingAuthAttempt
  /\ cb = NoCallback
  /\ login = NoLogin
  /\ \E userId \in Subs, maxDownloads \in MaxDownloadsChoices :
       srv = [uploadFile(NoServer, userId, 1, maxDownloads) EXCEPT !.last = NoAnswer]

NextDownload ==
  \/ \E publicId \in Uploads : downloadPublicFile_start(publicId)
  \/ \E d \in DOMAIN srv.downloads : downloadPublicFile_ref(d)
  \/ \E d \in DOMAIN srv.downloads, timeExpired \in BOOLEAN :
       downloadPublicFile_meta(d, timeExpired)
  \/ \E d \in DOMAIN srv.downloads : downloadPublicFile_data(d)
  \/ \E d \in DOMAIN srv.downloads : downloadPublicFile_put(d)
  \/ \E publicId \in Uploads : getPublicFileMetadata_start(publicId)
  \/ \E d \in DOMAIN srv.downloads : getPublicFileMetadata_ref(d)
  \/ \E d \in DOMAIN srv.downloads, timeExpired \in BOOLEAN :
       getPublicFileMetadata_meta(d, timeExpired)
  \/ \E d \in DOMAIN srv.downloads : getPublicFileMetadata_put(d)

SpecDownload == InitDownload /\ [][NextDownload]_vars

\* the fetch wrapper of a tab that logs in, with the token each call was sent with
NextWrapper ==
  \/ \E d \in AuthSuccessData, origin \in Origins : handleMessage_AUTH_SUCCESS(d, origin)
  \/ fetchWithAuth_start_bearer
  \/ \E c \in DOMAIN calls, status \in Statuses : fetchWithAuth_response(c, status)
  \/ \E s \in 1..MaxApiOps, r \in TokenResponses : Api_refreshAccessToken_done(s, r)

SpecWrapper == Init /\ [][NextWrapper]_vars

\* ------------------------------------------------------------- properties

BusyApiOps == {s \in 1..MaxApiOps : apiOps[s].busy}

Awaiting == {c \in DOMAIN calls : c.pc = "refresh"}

\* C1 (single flight): the fetchWithAuth calls that await coordinatedRefresh()
\* at the same time all await the one refresh call that is in flight, which made
\* the only POST of the fetch wrapper to the token endpoint; when it settles,
\* every one of them continues with its outcome (none is left awaiting).
C1_SingleFlight ==
  /\ Cardinality(BusyApiOps) <= 1
  /\ \A c \in Awaiting :
       /\ isRefreshing
       /\ c.joined = refreshPromise
       /\ apiOps[c.joined].busy
  /\ ev.op = "api_refresh_done" => Awaiting = {}

\* two calls joined one refresh, it succeeded, and both re-issued their request
C1_TwoCallersOneRefresh ==
  /\ ev.op = "api_refresh_done"
  /\ ev.kind = "ok"
  /\ \E c \in DOMAIN calls : c.pc = "req" /\ c.nreq = 2 /\ calls[c] >= 2

\* C2 (at most one refresh outstanding): counting the refresh calls of the App
\* (timer, immediate branch, visibility change) and of the fetch wrapper, at
\* most one refresh_token POST is in flight.
C2_AtMostOneRefreshOutstanding ==
  InFlight(appRefresh) + Cardinality(BusyApiOps) <= 1

\* C3 (state mismatch): a callback that carries a code and a state, the state
\* being other than the stored one, makes no token and no userinfo request, and
\* fails with the state-mismatch error.
C3_StateMismatchFails ==
  (/\ cb.impl # "none"
   /\ cb.code # NULL
   /\ cb.state # NULL
   /\ cb.savedState # NULL
   /\ cb.state # cb.savedState)
    => /\ cb.tokenReqs = 0
       /\ cb.userinfoReqs = 0
       /\ cb.pc = "done"
       /\ ErrorKind(cb.outcome) = "StateMismatch"

\* C4 (clean-up): when a callback run of the service or of the page has
\* finished, with success or with any failure, neither the code verifier nor
\* the state is stored.
C4_PendingAuthAttemptDeleted ==
  (cb.pc = "done" /\ cb.impl \in {"service", "page"}) => ss = NoPendingAuthAttempt

\* C5 (no pending attempt): a callback of the service or of the page that
\* carries a code while nothing is stored makes no token request and fails with
\* the missing-verifier error (the "Missing auth parameters" of the service
\* counted as such).
C5_MissingVerifier ==
  (/\ cb.impl \in {"service", "page"}
   /\ cb.code # NULL
   /\ cb.savedState = NULL
   /\ cb.savedVerifier = NULL)
    => /\ cb.tokenReqs = 0
       /\ cb.pc = "done"
       /\ ErrorKind(cb.outcome) \in {"MissingVerifier", "MissingParameters"}

\* C6 (one retry): a fetchWithAuth call makes at most two requests and awaits
\* the refresh at most once; the second request is made after one refresh, with
\* retry = false, and a call that awaits a refresh has made one request only
\* (so a 401 to the second request ends the call).
C6_AtMostOneRetry ==
  /\ \A c \in DOMAIN calls :
       /\ c.nreq <= 2
       /\ c.nrefresh <= 1
       /\ c.nreq = 2 => (~c.retry /\ c.nrefresh = 1)
       /\ c.pc = "refresh" => c.nreq = 1
  /\ ev.nreq <= 2

\* the re-issued request was answered 401 and the call ended with it
C6_SecondRequest401 ==
  ev.op = "fetch_done" /\ ev.result = "401" /\ ev.nreq = 2

\* C7 (refresh failed after a 401): when the refresh of a fetchWithAuth call
\* returned false, the four keys are removed, the App is unauthenticated on the
\* login view (authFailed), the dashboard has its AuthError, and the call made
\* its one request only.
C7_RefreshFailedClearsSession ==
  ((ev.op = "api_refresh_done" /\ ev.kind # "ok")
     \/ (ev.op = "fetch_401" /\ ev.refreshFail = "no_refresh_token")) =>
    /\ ev.result = "AuthError"
    /\ ls = EmptyStorage
    /\ auth = Unauthenticated
    /\ currentView = "LOGIN"
    /\ logoutDue
    /\ ev.nreq = 1

\* the token endpoint answered non-2xx to the refresh a call was awaiting
C7_RefreshRejected ==
  ev.op = "api_refresh_done" /\ ev.kind = "non2xx" /\ ev.result = "AuthError"

\* C8 (refresh failure is terminal): after a step in which a refresh attempt
\* failed, by a non-2xx answer or for want of a stored refresh token, the four
\* keys are removed, the App is unauthenticated and no refresh timer is armed.
C8_RefreshFailureTerminal ==
  ev.refreshFail \in {"non2xx", "no_refresh_token"} =>
    /\ ls = EmptyStorage
    /\ ~auth.isAuthenticated
    /\ timers = {}

\* C9 (no write-back): while no access token is stored, only a login stores
\* one; once the storage is empty, only a login writes to it.
C9_NoWriteBack ==
  [][((ls.auth_token = NULL /\ ls'.auth_token # NULL) \/ (ls = EmptyStorage /\ ls' # ls))
       => ev'.op = "AUTH_SUCCESS"]_vars

\* C10 (logout cancels): when handleLogout has finished, no timer is armed and
\* the coordinator of the fetch wrapper holds no refresh in flight.
C10_LogoutCancels ==
  ev.op = "logout_done" =>
    /\ timers = {}
    /\ ~isRefreshing
    /\ refreshPromise = 0
    /\ BusyApiOps = {}

\* C11 (origin of messages): a step that handles an AUTH_SUCCESS or AUTH_ERROR
\* message of another origin changes neither localStorage nor the auth state nor
\* the view.
C11_ForeignMessagesIgnored ==
  [][(ev'.op \in {"AUTH_SUCCESS", "AUTH_ERROR"} /\ ev'.origin # "own")
       => UNCHANGED <<ls, auth, currentView>>]_vars

\* C14 (one timer): at most one refresh timer is armed, the one
\* refreshTimeoutRef holds.
C14_AtMostOneTimer ==
  /\ Cardinality(timers) <= 1
  /\ \A x \in timers : x.id = refreshTimeoutRef

\* a visibility change re-armed the timer, for an expiry stored after the
\* timer of the login had been armed
C14_TimerReplaced ==
  /\ ev.op = "visibility"
  /\ ticks = 1
  /\ timers = {[id |-> refreshTimeoutRef, due |-> Now + 3300000]}

\* the refresh calls of the App that a step starts
StartedRefreshes ==
  (InFlight(appRefresh') - InFlight(appRefresh))
    + (IF ev'.op = "app_refresh_done" THEN 1 ELSE 0)

\* the steps that end with a call of scheduleTokenRefresh
RanScheduleTokenRefresh ==
  \/ ev'.op = "AUTH_SUCCESS" /\ ~auth.isAuthenticated
  \/ ev'.op = "visibility" /\ ls.auth_expires_at.ms - Now > 300000
  \/ ev'.op \in {"app_refresh_done", "api_refresh_done"} /\ ev'.kind = "ok"

\* C15 (delay of the timer): scheduleTokenRefresh, with t = expiresAt - now -
\* 300000: for t > 0 it leaves one timer armed, due in t ms, and starts no
\* refresh; for t <= 0 it leaves no timer armed and calls refreshAccessToken
\* (which posts if a refresh token is stored). A login with expires_in = 3600
\* arms the timer for 3300000 ms later.
C15_TimeUntilRefresh ==
  [][(RanScheduleTokenRefresh /\ ls'.auth_expires_at.tag = "num") =>
       LET t == (ls'.auth_expires_at.ms - Now) - 300000 IN
       /\ t > 0 =>
            /\ timers' = {[id |-> refreshTimeoutRef', due |-> Now + t]}
            /\ StartedRefreshes = 0
       /\ t <= 0 =>
            /\ timers' = {}
            /\ IF ls'.auth_refresh_token = NULL
               THEN StartedRefreshes = 0 /\ ev'.refreshFail = "no_refresh_token"
               ELSE StartedRefreshes = 1
       /\ (ev'.op = "AUTH_SUCCESS" /\ ls'.auth_expires_at = ExpNum(Now + 3600 * 1000)) =>
            \E x \in timers' : x.due - Now = 3300000]_vars

\* a refresh succeeded exactly 300000 ms before the stored expiry, which the
\* answer did not renew: the next refresh started at once
C15_RefreshAtTheBuffer ==
  /\ ev.op \in {"app_refresh_done", "api_refresh_done"}
  /\ ev.kind = "ok"
  /\ ls.auth_expires_at.tag = "num"
  /\ ls.auth_expires_at.ms - Now = 300000
  /\ timers = {}
  /\ InFlight(appRefresh) >= 1

\* C16 (successful refresh): a refresh posts the stored refresh token; when it
\* succeeded, the access token of the answer is stored (and set in auth), and
\* so are its refresh token and the expiry computed from its expires_in when it
\* has them, and the timer is armed 300000 ms before that expiry.
C16_SuccessfulRefresh ==
  /\ [](ev.op \in {"app_refresh_done", "api_refresh_done"} /\ ev.kind = "ok" =>
          /\ ls.auth_token = ev.resp.access_token
          /\ auth.token = ev.resp.access_token
          /\ ev.resp.refresh_token # NULL =>
               ls.auth_refresh_token = ev.resp.refresh_token
          /\ ev.resp.expires_in # 0 =>
               /\ ls.auth_expires_at = ExpNum(Now + ev.resp.expires_in * 1000)
               /\ timers = {[id |-> refreshTimeoutRef,
                             due |-> (Now + ev.resp.expires_in * 1000) - 300000]})
  /\ [][/\ \A s \in 1..MaxApiOps :
              (apiOps'[s].busy /\ ~apiOps[s].busy) =>
                 (apiOps'[s].rt # NULL /\ apiOps'[s].rt = ls.auth_refresh_token)
        /\ StartedRefreshes > 0 =>
              /\ ls'.auth_refresh_token # NULL
              /\ appRefresh'[ls'.auth_refresh_token] > 0]_vars

\* the App's refresh succeeded 55 minutes after the login, with a new refresh
\* token and expires_in = 3600
C16_RefreshRenewed ==
  /\ ev.op = "app_refresh_done"
  /\ ev.kind = "ok"
  /\ ev.resp.refresh_token # NULL
  /\ ev.resp.expires_in = 3600
  /\ ticks = 1
  /\ auth.isAuthenticated
  /\ timers # {}

\* C17 (tab visible again): handleVisibilityChange of an authenticated tab with
\* a stored expiry: when expiresAt - now <= 300000 it calls refreshAccessToken
\* (which posts if a refresh token is stored) and leaves the timers alone;
\* otherwise it starts no refresh and re-arms the timer for 300000 ms before
\* the stored expiry.
C17_VisibilityChange ==
  [][ev'.op = "visibility" =>
       IF ls.auth_expires_at.ms - Now <= 300000
       THEN /\ timers' = timers
            /\ IF ls.auth_refresh_token = NULL
               THEN StartedRefreshes = 0 /\ ev'.refreshFail = "no_refresh_token"
               ELSE StartedRefreshes = 1
       ELSE /\ StartedRefreshes = 0
            /\ timers' = {[id |-> refreshTimeoutRef',
                           due |-> ls.auth_expires_at.ms - 300000]}]_vars

\* the tab became visible exactly 300000 ms before the stored expiry, the
\* timer still armed, and a refresh was started
C17_VisibleAtTheBuffer ==
  /\ ev.op = "visibility"
  /\ ls.auth_expires_at.ms - Now = 300000
  /\ timers # {}
  /\ InFlight(appRefresh) >= 1

\* C12 (message target): a callback run with an opener ends by sending its
\* AUTH_SUCCESS or AUTH_ERROR message to the application's own origin, and
\* closes its window.
C12_MessageToOwnOrigin ==
  (cb.pc = "done" /\ cb.opener) =>
    /\ cb.msg.type \in {"AUTH_SUCCESS", "AUTH_ERROR"}
    /\ cb.msg.target = "origin"
    /\ cb.closed

\* C13 (fresh pending attempt): initiateLoginPopup has removed the stored pair
\* when it awaits the code challenge; when it has completed, the stored pair is
\* the verifier and the state this call generated, and the authorize URL carries
\* that state and the challenge of that verifier.
C13_FreshPendingAuthAttempt ==
  /\ ev.op = "login_start" => ss = NoPendingAuthAttempt
  /\ ev.op = "login_opened" =>
       /\ ss = [pkce_code_verifier |-> login.verifier, oauth_state |-> login.state]
       /\ login.url.state = ss.oauth_state
       /\ login.url.code_challenge = generateCodeChallenge(ss.pkce_code_verifier)

\* a call completed while another call, which removed the stored pair after
\* this one had started, is still awaiting its challenge
C13_SecondAttemptOpened ==
  /\ ev.op = "login_opened"
  /\ login.pending # {}
  /\ login.verifier = "v2"
  /\ login.state = "s2"

\* C18 (redirect flow): a successful callback of the service or of the page
\* without opener has written the session to localStorage (access token, user,
\* and the refresh token and expiry it received) and has left the address
\* without code and state.
C18_RedirectFlowPersists ==
  (/\ cb.pc = "done"
   /\ cb.outcome = "success"
   /\ ~cb.opener
   /\ cb.impl \in {"service", "page"}) =>
    /\ cb.persisted.auth_token = cb.tokens.access_token
    /\ cb.persisted.auth_user = cb.user
    /\ cb.tokens.refresh_token # NULL =>
         cb.persisted.auth_refresh_token = cb.tokens.refresh_token
    /\ cb.tokens.expires_in # 0 =>
         cb.persisted.auth_expires_at = ExpNum(Now + cb.tokens.expires_in * 1000)
    /\ cb.address \in {"pathname", "/"}

\* C19 (nothing dropped): after a successful callback of the service or of the
\* page, the AUTH_SUCCESS message (with an opener) or the persisted session
\* (without) carries the refresh token and the expires_in of the token response.
C19_LoginKeepsRefreshToken ==
  (cb.pc = "done" /\ cb.outcome = "success" /\ cb.impl \in {"service", "page"}) =>
    IF cb.opener
    THEN /\ cb.msg.refreshToken = cb.tokens.refresh_token
         /\ cb.msg.expiresIn = cb.tokens.expires_in
    ELSE /\ cb.tokens.refresh_token # NULL =>
              cb.persisted.auth_refresh_token = cb.tokens.refresh_token
         /\ cb.tokens.expires_in # 0 =>
              cb.persisted.auth_expires_at = ExpNum(Now + cb.tokens.expires_in * 1000)

\* C20 (steps in order): a callback run makes at most one token request and at
\* most one userinfo request; none without a code; the userinfo request only
\* after the token endpoint answered 2xx; a failed run sends no AUTH_SUCCESS,
\* persists nothing, shows no authenticated view, and is reported: AUTH_ERROR
\* to the opener, or in the page (alert, or the error in the address).
C20_StepsInOrder ==
  /\ cb.tokenReqs <= 1
  /\ cb.userinfoReqs <= 1
  /\ cb.code = NULL => (cb.tokenReqs = 0 /\ cb.userinfoReqs = 0)
  /\ cb.userinfoReqs = 1 => (cb.tokenReqs = 1 /\ cb.tokens.kind = "ok")
  /\ cb.outcome = "Token exchange failed" => cb.userinfoReqs = 0
  /\ (cb.pc = "done" /\ cb.outcome # "success") =>
       /\ cb.msg.type # "AUTH_SUCCESS"
       /\ cb.persisted = EmptyStorage
       /\ cb.view # "ADMIN_DASHBOARD"
       /\ cb.opener => (cb.msg.type = "AUTH_ERROR" /\ cb.closed)
       /\ ~cb.opener => cb.report # "none"

\* the userinfo endpoint answered non-2xx to a run with an opener
C20_UserInfoFailed ==
  /\ cb.pc = "done"
  /\ cb.opener
  /\ cb.outcome = "Failed to fetch user info"
  /\ cb.tokenReqs = 1
  /\ cb.userinfoReqs = 1

\* C21 (other failures): a step in which fetchWithAuth returns a response whose
\* status is neither 2xx nor 401 changes neither localStorage nor the auth state
\* nor the view, starts no refresh and arms no logout, and the caller throws
\* the ordinary Error.
C21_OtherStatusReturned ==
  [][(ev'.op = "fetch_done" /\ ev'.result \notin {"200", "401"})
       => /\ UNCHANGED <<ls, auth, currentView, isRefreshing, refreshPromise,
                         apiOps, appRefresh, logoutDue>>
          /\ ev'.caller = "Error"]_vars

\* a 500 was returned to the caller of a tab that holds a session
C21_ServerErrorReturned ==
  /\ ev.op = "fetch_done"
  /\ ev.result = "500"
  /\ ev.caller = "Error"
  /\ ls.auth_token # NULL
  /\ ls.auth_refresh_token # NULL
  /\ auth.isAuthenticated

\* C22 (forced logout): a received AUTH_ERROR message changes neither
\* localStorage nor the auth state, and after every step in which a refresh
\* failed (non-2xx answer, or no stored refresh token) or a caller of the fetch
\* wrapper got the session-expired AuthError, the four keys are removed and the
\* App is unauthenticated.
C22_OnlyRefreshFailureLogsOut ==
  /\ [][ev'.op = "AUTH_ERROR" => UNCHANGED <<ls, auth>>]_vars
  /\ []((\/ ev.refreshFail \in {"non2xx", "no_refresh_token"}
         \/ ev.result = "AuthError"
         \/ ev.caller = "AuthError")
          => (ls = EmptyStorage /\ auth = Unauthenticated))

\* C23 (logout): whenever handleLogout finishes, whether the revoke request
\* was answered 2xx, answered non-2xx or rejected, or was not made, the four
\* keys are removed and the App is unauthenticated on the login view.
C23_LogoutClears ==
  [][((logout = "revoking" /\ logout' = "idle") \/ ev'.op = "logout_done")
       => /\ ls' = EmptyStorage
          /\ auth' = Unauthenticated
          /\ currentView' = "LOGIN"]_vars

\* the revoke request was rejected and handleLogout has finished
C23_RevokeRejected ==
  /\ ev.op = "logout_done"
  /\ ev.kind = "throw"
  /\ logout = "idle"
  /\ ls = EmptyStorage

\* C24 (hydration): after the App mounted over a storage that held a token and
\* an unparsable user, the App is unauthenticated and none of the four keys is
\* stored.
C24_HydrationClearsAll ==
  (ev.op = "mount" /\ ev.kind = "throw") =>
    /\ auth = Unauthenticated
    /\ ls = EmptyStorage

\* C25 (identity), as stated: a step other than a login in which a refresh
\* ended, with success or with a failure, leaves the stored user and the user of the auth state
\* as they were.
C25_AnyRefreshKeepsUser ==
  [][(/\ ev'.op # "AUTH_SUCCESS"
       /\ (ev'.op \in {"app_refresh_done", "api_refresh_done"} \/ ev'.refreshFail # "none"))
       => (ls'.auth_user = ls.auth_user /\ auth'.user = auth.user)]_vars

\* C25 (identity), amended: in a step other than a login, a successful refresh
\* leaves the stored user and the user of the auth state as they were; a
\* failed refresh leaves them as they were or ends the session (the four keys removed, the App unauthenticated);
\* only an AUTH_SUCCESS message stores a user.
C25_RefreshKeepsIdentity ==
  /\ [][(/\ ev'.op # "AUTH_SUCCESS"
          /\ (ev'.op \in {"app_refresh_done", "api_refresh_done"} \/ ev'.refreshFail # "none"))
          => \/ (ls'.auth_user = ls.auth_user /\ auth'.user = auth.user)
             \/ /\ ~(ev'.op \in {"app_refresh_done", "api_refresh_done"} /\ ev'.kind = "ok")
                /\ ls' = EmptyStorage
                /\ auth' = Unauthenticated]_vars
  /\ [][((ls'.auth_user # ls.auth_user /\ ls'.auth_user # NULL)
           \/ (auth'.user # auth.user /\ auth'.user # NULL))
          => ev'.op = "AUTH_SUCCESS"]_vars

\* a refresh of the App succeeded and the user is the one of the login
C25_RefreshedSameUser ==
  /\ ev.op = "app_refresh_done"
  /\ ev.kind = "ok"
  /\ ls.auth_token \in RefreshedTokens
  /\ ls.auth_user \in Users
  /\ auth.user = ls.auth_user

\* C26 (expiry): an auth_expires_at written by a callback run is the decimal
\* string of a number of milliseconds, Date.now() + expires_in * 1000 for the
\* expires_in of the token response of that run.
C26_ExpiryIsNowPlusExpiresIn ==
  cb.persisted.auth_expires_at # ExpAbsent =>
    /\ cb.tokens.expires_in # 0
    /\ cb.persisted.auth_expires_at = ExpNum(Now + cb.tokens.expires_in * 1000)

\* C27 (PKCE): the authorize URL that initiateLoginPopup opened names the
\* method S256 and carries the SHA-256 challenge of the verifier that call
\* generated, which is the verifier stored when the call completed; a token
\* request of AuthService.handleCallback carries the verifier it found stored.
C27_ChallengeOfStoredVerifier ==
  /\ login.url # NoUrl =>
       /\ login.url.code_challenge_method = "S256"
       /\ login.url.code_challenge = <<"S256", login.verifier>>
  /\ ev.op = "login_opened" => ss.pkce_code_verifier = login.verifier
  /\ (cb.impl = "service" /\ cb.tokenReqs > 0) =>
       /\ cb.savedVerifier # NULL
       /\ cb.sentVerifier = cb.savedVerifier

\* the callback of the login opened last posted its code with the verifier
\* whose challenge the authorize URL carried
C27_ExchangeWithVerifier ==
  /\ cb.impl = "service"
  /\ cb.tokenReqs = 1
  /\ cb.state = login.url.state
  /\ cb.sentVerifier = login.verifier
  /\ login.url.code_challenge = <<"S256", cb.sentVerifier>>

\* C28 (download limit): for every file, the downloads answered with its
\* content are at most the maxDownloads it was uploaded with.
C28_DownloadsWithinMax ==
  \A o \in Objects : srv.served[o] <= srv.limit[o]

\* C29 (file routes), as stated: a /api/files request without a Bearer token,
\* or whose token the userinfo endpoint did not accept, is answered 401 and
\* touches no object; an accepted request touches only keys under
\* users/{user.sub}/.
C29_OnlyKeysUnderOwnSub ==
  srv.last.op = "route" =>
    IF ~srv.last.bearer \/ srv.last.answer # "ok"
    THEN srv.last.status = 401 /\ srv.last.touched = {}
    ELSE \A k \in srv.last.touched :
           k.space = "users" /\ k.userId = srv.last.user

\* C29 (file routes), amended: such a request is answered 401, touches no
\* object and leaves the bucket as it was; an accepted request touches only
\* keys under users/{user.sub}/ and the public references of that user's own
\* files, and changes no meta object of another user.
C29_OnlyOwnObjects ==
  /\ [](srv.last.op = "route" =>
          IF ~srv.last.bearer \/ srv.last.answer # "ok"
          THEN srv.last.status = 401 /\ srv.last.touched = {}
          ELSE /\ srv.last.status # 401
               /\ \A k \in srv.last.touched : k.userId = srv.last.user)
  /\ [][/\ (srv'.last.op = "route" /\ srv'.last.status = 401) =>
             (srv'.meta = srv.meta /\ srv'.pub = srv.pub)
        /\ \A o \in Objects :
             srv'.meta[o] # srv.meta[o] =>
               (srv'.last.op = "route" /\ o[1] = srv'.last.user)
        /\ \A i \in Uploads :
             srv'.pub[i] # srv.pub[i] =>
               /\ srv'.last.op = "route"
               /\ srv.pub[i].userId \in {NULL, srv'.last.user}
               /\ srv'.pub[i].userId \in {NULL, srv'.last.user}]_vars

\* a request whose token could not be validated was answered 401 while the
\* bucket held a file
C29_RejectedOverStoredFile ==
  /\ srv.last.op = "route"
  /\ srv.last.bearer
  /\ srv.last.answer = "throw"
  /\ srv.last.status = 401
  /\ \E o \in Objects : srv.meta[o] # NoMeta

\* C30 (no refresh chain): the step in which a refresh succeeded with an answer
\* that carried no expires_in, so that the stored expiry is the one from before
\* that refresh, starts no further refresh.
C30_NoBackToBackRefresh ==
  [][(/\ ev'.op \in {"app_refresh_done", "api_refresh_done"}
      /\ ev'.kind = "ok"
      /\ ev'.resp.expires_in = 0)
       => StartedRefreshes = 0]_vars

\* C31 (schedule kept alive): while the App is authenticated and an expiry is
\* stored, a refresh timer is armed or a refresh call is in flight.
C31_TimerOrRefreshInFlight ==
  (auth.isAuthenticated /\ ls.auth_expires_at # ExpAbsent) =>
    \/ timers # {}
    \/ InFlight(appRefresh) > 0
    \/ BusyApiOps # {}

\* C32 (authenticated means persisted): whenever the in-memory auth state of a
\* document is authenticated, its storage holds the access token and the user:
\* in the App with its message listener and in the App that ran the callback.
C32_AuthenticatedIsPersisted ==
  /\ auth.isAuthenticated => (ls.auth_token # NULL /\ ls.auth_user # NULL)
  /\ cb.isAuthenticated =>
       (cb.persisted.auth_token # NULL /\ cb.persisted.auth_user # NULL)

\* C33 (one session in storage): after an AUTH_SUCCESS message is handled, the
\* stored refresh token is the one the message carries or is absent, and the
\* stored expiry is the one computed from the message or is absent.
C33_MessageReplacesSession ==
  [][\A d \in AuthSuccessData, origin \in Origins :
       handleMessage_AUTH_SUCCESS(d, origin) =>
         /\ ls'.auth_refresh_token = d.refreshToken
         /\ ls'.auth_expires_at =
              IF d.expiresIn # 0 THEN ExpNum(Now + d.expiresIn * 1000) ELSE ExpAbsent]_vars

\* C34 (optional fields): after the callback page without opener completed on
\* a token response without refresh_token, storage holds no auth_refresh_token
\* entry; after one without expires_in, it holds no auth_expires_at entry.
C34_AbsentFieldsStoreNothing ==
  (cb.impl = "page" /\ ~cb.opener /\ cb.outcome = "success") =>
    /\ cb.tokens.refresh_token = NULL => cb.persisted.auth_refresh_token = NULL
    /\ cb.tokens.expires_in = 0 => cb.persisted.auth_expires_at = ExpAbsent

\* C35 (one refresh per expired token): a 401 does not start a token-endpoint
\* call when another call in flight was first sent with the same access
\* token, received its 401 and has been re-issued after the refresh that this
\* 401 led to: the requests sent with one token cause one refresh call.
C35_OneRefreshPerToken ==
  [][\A c \in DOMAIN calls :
       (/\ fetchWithAuth_response(c, 401)
        /\ c.retry
        /\ Cardinality(BusyApiOps') > Cardinality(BusyApiOps)) =>
         ~ \E c1 \in DOMAIN calls :
              c1.token = c.token /\ c1.nrefresh > 0 /\ c1.pc = "req"]_vars

\* C36 (wrapper refresh reaches the App): when a refresh started by the fetch
\* wrapper succeeds, the App's in-memory token is the access token now stored,
\* and the only timer left is the one armed 300000 ms before the expiry now
\* stored (none when that moment is not in the future or no expiry is stored).
C36_WrapperRefreshRearms ==
  [][\A s \in 1..MaxApiOps, r \in TokenResponses :
       (Api_refreshAccessToken_done(s, r) /\ r.kind = "ok") =>
         /\ ls'.auth_token = r.access_token
         /\ auth'.token = ls'.auth_token
         /\ r.expires_in # 0 =>
              ls'.auth_expires_at = ExpNum(Now + r.expires_in * 1000)
         /\ timers' =
              IF ls'.auth_expires_at = ExpAbsent
                 \/ timeUntilRefresh(ls'.auth_expires_at.ms, Now) <= 0
              THEN {}
              ELSE {[id |-> refreshTimeoutRef',
                     due |-> ls'.auth_expires_at.ms - REFRESH_BUFFER_MS]}]_vars

\* a wrapper refresh succeeded with a new expiry while the timer armed at the
\* login was pending: that timer is gone and the new one is due later
C36_TimerReplaced ==
  /\ ev.op = "api_refresh_done"
  /\ ev.kind = "ok"
  /\ ev.resp.expires_in # 0
  /\ ticks = 1
  /\ auth.isAuthenticated
  /\ auth.token = ev.resp.access_token
  /\ \E x \in timers : x.due > 3600 * 1000 - REFRESH_BUFFER_MS

\* C37 (monotone metadata): in every step, for every stored file, an isExpired
\* flag that was true stays true and currentDownloads does not decrease.
C37_MetadataMonotone ==
  [][\A o \in Objects :
       (srv.meta[o] # NoMeta /\ srv'.meta[o] # NoMeta) =>
         /\ srv.meta[o].isExpired => srv'.meta[o].isExpired
         /\ srv'.meta[o].currentDownloads >= srv.meta[o].currentDownloads]_vars

\* C38 (flag and promise): isRefreshing is true exactly when refreshPromise is
\* set; once the refresh in flight has settled both are reset; and a 401 that
\* then calls coordinatedRefresh with a refresh token stored starts a new
\* token-endpoint call.
C38_FlagIffPromise ==
  /\ [](isRefreshing <=> refreshPromise # 0)
  /\ []((\/ ev.op = "api_refresh_done"
         \/ ev.op = "fetch_401" /\ ev.refreshFail = "no_refresh_token") =>
          (~isRefreshing /\ refreshPromise = 0))
  /\ [][\A c \in DOMAIN calls :
          (/\ fetchWithAuth_response(c, 401)
           /\ c.retry
           /\ ~isRefreshing
           /\ ls.auth_refresh_token # NULL) =>
            /\ isRefreshing'
            /\ refreshPromise' # 0
            /\ BusyApiOps' = BusyApiOps \cup {refreshPromise'}
            /\ refreshPromise' \notin BusyApiOps]_vars

\* a refresh settled and re-issued one call; the 401 of another call has
\* started the refresh that is in flight now
C38_RefreshAfterSettled ==
  /\ isRefreshing
  /\ ev.op = "fetch_401"
  /\ \E c1 \in DOMAIN calls, c2 \in DOMAIN calls :
       /\ c1.pc = "req" /\ c1.nrefresh = 1 /\ ~c1.retry
       /\ c2.pc = "refresh" /\ c2.joined = refreshPromise /\ c2.nreq = 1
====
